---- MODULE Spec2Model ----
(***************************************************************************)
(* A model of gish (src/gish.go): a root git-svn repository and the tree   *)
(* of its svn externals, with the commands clone, clean and the generic    *)
(* fan-out, and the persistence of the tree in a git note.                 *)
(*                                                                         *)
(* Strings are sequences of one-character strings, so that the string      *)
(* functions of the code (strings.Replace, strings.Trim, path.Join, the    *)
(* two regular expressions of CookExternals) are computed as the code      *)
(* computes them.                                                          *)
(***************************************************************************)
EXTENDS Integers, Sequences, FiniteSets, Bags, TLC

Nil == <<"nil">>

----------------------------------------------------------------------------
(* Strings *)

NL == "\n"
SP == " "
SL == "/"

\* The class \s of the regular expressions (the characters the model uses).
IsSpace(c) == c \in {SP, NL, "\t"}

RECURSIVE Concat(_)
\* The concatenation of a sequence of strings.
Concat(ss) == IF ss = <<>> THEN <<>> ELSE Head(ss) \o Concat(Tail(ss))

\* Whether p occurs in s at position i (1-based).
HasPrefixAt(s, p, i) ==
    /\ i >= 1
    /\ i + Len(p) - 1 <= Len(s)
    /\ \A k \in 1..Len(p) : s[i + k - 1] = p[k]

HasPrefix(s, p) == HasPrefixAt(s, p, 1)

\* strings.Index, 1-based; 0 when sub does not occur in s.
Index(s, sub) ==
    LET hits == {i \in 1..(Len(s) + 1) : HasPrefixAt(s, sub, i)}
    IN IF hits = {} THEN 0
       ELSE CHOOSE i \in hits : \A j \in hits : i <= j

\* strings.Replace(s, old, new, 1): the first occurrence only.
Replace1(s, old, new) ==
    LET i == Index(s, old)
    IN IF i = 0 THEN s
       ELSE SubSeq(s, 1, i - 1) \o new \o SubSeq(s, i + Len(old), Len(s))

\* strings.Trim(s, cutset) for a one-character cutset.
Trim(s, c) ==
    LET keep == {i \in 1..Len(s) : s[i] # c}
    IN IF keep = {} THEN <<>>
       ELSE LET lo == CHOOSE i \in keep : \A j \in keep : i <= j
                hi == CHOOSE i \in keep : \A j \in keep : i >= j
            IN SubSeq(s, lo, hi)

RECURSIVE Split(_, _)
\* strings.Split(s, sep) for a one-character separator.
Split(s, c) ==
    LET i == Index(s, <<c>>)
    IN IF i = 0 THEN <<s>>
       ELSE <<SubSeq(s, 1, i - 1)>> \o Split(SubSeq(s, i + 1, Len(s)), c)

RECURSIVE SplitAfter(_, _)
\* strings.SplitAfter(s, sep) for a one-character separator.
SplitAfter(s, c) ==
    LET i == Index(s, <<c>>)
    IN IF i = 0 THEN <<s>>
       ELSE <<SubSeq(s, 1, i)>> \o SplitAfter(SubSeq(s, i + 1, Len(s)), c)

\* strings.SplitAfterN(s, sep, 2) for a one-character separator.
SplitAfter2(s, c) ==
    LET i == Index(s, <<c>>)
    IN IF i = 0 THEN <<s>>
       ELSE <<SubSeq(s, 1, i), SubSeq(s, i + 1, Len(s))>>

RECURSIVE JoinWith(_, _)
\* strings.Join(ss, sep).
JoinWith(ss, sep) ==
    IF ss = <<>> THEN <<>>
    ELSE IF Len(ss) = 1 THEN ss[1]
    ELSE ss[1] \o sep \o JoinWith(Tail(ss), sep)

RECURSIVE CleanSegs(_, _, _)
\* The loop of path.Clean over the elements of the path: "" and "." are
\* dropped, ".." removes the element before it, or is kept at the start of a
\* path that is not rooted.
CleanSegs(segs, out, rooted) ==
    IF segs = <<>> THEN out
    ELSE LET e == Head(segs)
         IN IF e = <<>> \/ e = <<".">> THEN CleanSegs(Tail(segs), out, rooted)
            ELSE IF e = <<".", ".">>
              THEN IF out # <<>> /\ out[Len(out)] # <<".", ".">>
                     THEN CleanSegs(Tail(segs), SubSeq(out, 1, Len(out) - 1), rooted)
                   ELSE IF rooted THEN CleanSegs(Tail(segs), out, rooted)
                   ELSE CleanSegs(Tail(segs), Append(out, e), rooted)
            ELSE CleanSegs(Tail(segs), Append(out, e), rooted)

\* path.Clean.
PathClean(p) ==
    IF p = <<>> THEN <<".">>
    ELSE LET rooted == p[1] = SL
             body == JoinWith(CleanSegs(Split(p, SL), <<>>, rooted), <<SL>>)
         IN IF rooted THEN <<SL>> \o body
            ELSE IF body = <<>> THEN <<".">> ELSE body

\* path.Join: the non-empty elements joined by "/", then cleaned; "" when
\* every element is empty.
PathJoin(elems) ==
    LET ne == SelectSeq(elems, LAMBDA e : e # <<>>)
    IN IF ne = <<>> THEN <<>> ELSE PathClean(JoinWith(ne, <<SL>>))

\* path.Split: the directory (with its final slash) and the file.
PathSplit(p) ==
    LET sl == {i \in 1..Len(p) : p[i] = SL}
        i == IF sl = {} THEN 0 ELSE CHOOSE k \in sl : \A j \in sl : k >= j
    IN <<SubSeq(p, 1, i), SubSeq(p, i + 1, Len(p))>>

----------------------------------------------------------------------------
(* The svn server and the destination of the model *)

\* The number of invocations of gish a behaviour holds.
MaxRuns == 2

\* The url of the repository root ("Repository Root" of git svn info).
RepoRootUrl == <<"s", ":", "/", "r">>

\* The url the root repository is cloned from, and the urls of the externals.
UrlT == RepoRootUrl \o <<"/", "t">>
UrlA == RepoRootUrl \o <<"/", "a">>
UrlB == RepoRootUrl \o <<"/", "b">>
UrlC == RepoRootUrl \o <<"/", "c">>

\* The destination directory of the clone (an absolute, clean path), and the
\* paths the externals of the server get under it.
Dest == <<"/", "d">>
PathA == Dest \o <<"/", "a">>
PathV == Dest \o <<"/", "v">>
PathB == PathV \o <<"/", "b">>
PathC == PathA \o <<"/", "c">>

\* The output of "git svn show-externals" in a checkout of url: a header
\* "# <dir>" for each directory holding an svn:externals property, then the
\* lines of the property, each prefixed with the directory.
\*   s:/r/t   # /      /^/a a          # /v/    /v/^/b b
\*   s:/r/a   # /      /^/c c
ShowExternals(url) ==
    IF url = UrlT
      THEN <<NL, "#", SP, "/", NL, "/", "^", "/", "a", SP, "a", NL,
             NL, "#", SP, "/", "v", "/", NL,
             "/", "v", "/", "^", "/", "b", SP, "b", NL>>
    ELSE IF url = UrlA
      THEN <<NL, "#", SP, "/", NL, "/", "^", "/", "c", SP, "c", NL>>
    ELSE <<>>

----------------------------------------------------------------------------
(* ReplaceRelative and CookExternals *)

Err(msg) == [ok |-> FALSE, val |-> msg]
Ok(v) == [ok |-> TRUE, val |-> v]

\* A variant of ReplaceRelative that lets "../" through as if it were a
\* url: C11 is lost.
ReplaceRelativeLax(repoRootUrl, externalRef) ==
    LET refParts == SplitAfter2(externalRef, SL)
    IN IF refParts[1] = <<"^", "/">>
         THEN [ok |-> TRUE, val |-> repoRootUrl \o <<SL>> \o refParts[2]]
       ELSE IF refParts[1] \in {<<"/", "/">>, <<"/">>}
         THEN [ok |-> FALSE, val |-> "Unhandled relative extern type"]
       ELSE [ok |-> TRUE, val |-> externalRef]

\* ReplaceRelative: "^/rest" is the repository root, "/" and rest; the other
\* relative forms are errors; anything else is returned as it is.
ReplaceRelative(repoRootUrl, externalRef) ==
    LET refParts == SplitAfter2(externalRef, SL)
    IN IF refParts[1] = <<"^", "/">>
         THEN Ok(repoRootUrl \o <<SL>> \o refParts[2])
       ELSE IF refParts[1] \in {<<".", ".", "/">>, <<"/", "/">>, <<"/">>}
         THEN Err("Unhandled relative extern type")
       ELSE Ok(externalRef)

\* The text (.*) captures from position i: up to the end of the line.
RestOfLine(line, i) ==
    LET nls == {k \in i..Len(line) : line[k] = NL}
        e == IF nls = {} THEN Len(line)
             ELSE (CHOOSE k \in nls : \A j \in nls : k <= j) - 1
    IN SubSeq(line, i, e)

\* pathRegex `^#\s(.*)`: the captured text in a one-element sequence, or <<>>
\* when the line does not match.
MatchHeader(line) ==
    IF Len(line) >= 2 /\ line[1] = "#" /\ IsSpace(line[2])
      THEN <<RestOfLine(line, 3)>>
    ELSE <<>>

\* A variant of MatchExt that gives the two captured texts the other way
\* round, the text after the whitespace first: C20 is lost.
MatchExtSwapped(base, line) ==
    IF ~HasPrefix(line, base) THEN <<>>
    ELSE LET b == Len(base) + 1
             ws == {k \in b..Len(line) : IsSpace(line[k])}
         IN IF ws = {} THEN <<>>
            ELSE LET w == CHOOSE k \in ws : \A j \in ws : k <= j
                 IN <<RestOfLine(line, w + 1), SubSeq(line, b, w - 1)>>

\* extRegex `^<base>(\S*)\s(.*)`, base quoted: the two captured texts, or <<>>
\* when the line does not match.
MatchExt(base, line) ==
    IF ~HasPrefix(line, base) THEN <<>>
    ELSE LET b == Len(base) + 1
             ws == {k \in b..Len(line) : IsSpace(line[k])}
         IN IF ws = {} THEN <<>>
            ELSE LET w == CHOOSE k \in ws : \A j \in ws : k <= j
                 IN <<SubSeq(line, b, w - 1), RestOfLine(line, w + 1)>>

RECURSIVE CookLines(_, _, _, _, _, _)
\* The loop of CookExternals over the lines. lastPath is <<>> while a header
\* is expected (expecting == PATH) and holds the header's path while an
\* entry is expected (expecting == EXT). infos counts the calls of
\* GitSvnInfo(repo.Path, "Repository Root") so far: the first infoOk calls
\* succeed and the next one fails.
CookLines(repoPath, lines, lastPath, exts, infos, infoOk) ==
    IF lines = <<>> THEN [err |-> FALSE, exts |-> exts, infos |-> infos]
    ELSE LET line == Head(lines)
         IN IF lastPath = <<>>
              THEN CookLines(repoPath, Tail(lines), MatchHeader(line), exts,
                             infos, infoOk)
            ELSE LET match == MatchExt(lastPath[1], line)
                 IN IF match = <<>>
                      THEN CookLines(repoPath, Tail(lines), <<>>, exts, infos,
                                     infoOk)
                    ELSE IF infos >= infoOk
                      THEN [err |-> TRUE, exts |-> exts, infos |-> infos + 1]
                    ELSE LET svnUrl == ReplaceRelative(RepoRootUrl, match[1])
                         IN IF ~svnUrl.ok
                              THEN [err |-> TRUE, exts |-> exts,
                                    infos |-> infos + 1]
                            ELSE CookLines(repoPath, Tail(lines), <<>>,
                                   Append(exts,
                                     [Path |-> PathJoin(<<repoPath, lastPath[1],
                                                          match[2]>>),
                                      Url |-> svnUrl.val]),
                                   infos + 1, infoOk)

\* CookExternals on a node at repoPath: the externals it appends, in order,
\* whether it returns an error (the node's ExternalsKnown is set only when it
\* does not), and the number of GitSvnInfo calls it made.
CookExternals(repoPath, rawExternals, infoOk) ==
    CookLines(repoPath, SplitAfter(rawExternals, NL), <<>>, <<>>, 0, infoOk)

----------------------------------------------------------------------------
(* The tree in memory: a heap of Repo objects addressed by number (0 is the *)
(* nil pointer), and its JSON document.                                     *)

\* A Repo literal with the fields the code sets; the others are zero.
NewNode(path, url, root) ==
    [Path |-> path, Url |-> url, CheckoutArgs |-> <<>>,
     ExternalsKnown |-> FALSE, Externals |-> <<>>, Root |-> root]

RECURSIVE PathsPost(_, _), PathsPostOf(_, _)
\* A variant of Paths that lists a repo after its externals: with it in the
\* place of Paths the order C9 states is lost.
PathsPost(h, id) == PathsPostOf(h, h[id].Externals) \o <<h[id].Path>>
PathsPostOf(h, ids) ==
    IF ids = <<>> THEN <<>>
    ELSE PathsPost(h, Head(ids)) \o PathsPostOf(h, Tail(ids))

RECURSIVE Paths(_, _), PathsOf(_, _)
\* Repo.Paths: the path of the repo, then those of each external's subtree.
Paths(h, id) == <<h[id].Path>> \o PathsOf(h, h[id].Externals)
PathsOf(h, ids) ==
    IF ids = <<>> THEN <<>> ELSE Paths(h, Head(ids)) \o PathsOf(h, Tail(ids))

RECURSIVE Nodes(_, _), NodesOf(_, _)
\* The objects of the tree under id, in the order of Paths.
Nodes(h, id) == <<id>> \o NodesOf(h, h[id].Externals)
NodesOf(h, ids) ==
    IF ids = <<>> THEN <<>> ELSE Nodes(h, Head(ids)) \o NodesOf(h, Tail(ids))

Range(f) == {f[k] : k \in DOMAIN f}

\* A variant of Marshal that leaves the externals out of the document: the
\* note is no longer the whole tree, and C17 is lost.
MarshalShallow(h, id) ==
    [Path |-> h[id].Path, Url |-> h[id].Url,
     CheckoutArgs |-> h[id].CheckoutArgs,
     ExternalsKnown |-> h[id].ExternalsKnown,
     Externals |-> <<>>]

RECURSIVE Marshal(_, _)
\* json.MarshalIndent of a Repo: every field but Root (`json:"-"`).
Marshal(h, id) ==
    [Path |-> h[id].Path, Url |-> h[id].Url,
     CheckoutArgs |-> h[id].CheckoutArgs,
     ExternalsKnown |-> h[id].ExternalsKnown,
     Externals |-> [k \in 1..Len(h[id].Externals) |->
                       Marshal(h, h[id].Externals[k])]]

RECURSIVE Unmarshal(_, _), UnmarshalList(_, _)
\* json.Unmarshal into a new Repo: new objects, Root nil in each of them.
\* The heap with the objects added, and the number of the top one.
Unmarshal(doc, h) ==
    LET id == Len(h) + 1
        h1 == Append(h, [Path |-> doc.Path, Url |-> doc.Url,
                         CheckoutArgs |-> doc.CheckoutArgs,
                         ExternalsKnown |-> doc.ExternalsKnown,
                         Externals |-> <<>>, Root |-> 0])
        r == UnmarshalList(doc.Externals, h1)
    IN [heap |-> [r.heap EXCEPT ![id].Externals = r.ids], id |-> id]
UnmarshalList(docs, h) ==
    IF docs = <<>> THEN [heap |-> h, ids |-> <<>>]
    ELSE LET r1 == Unmarshal(Head(docs), h)
             r2 == UnmarshalList(Tail(docs), r1.heap)
         IN [heap |-> r2.heap, ids |-> <<r1.id>> \o r2.ids]

RECURSIVE LinkToFlat(_, _, _)
\* A variant of LinkTo that does not go into the externals of the externs:
\* C13 is lost.
LinkToFlat(h, externs, root) ==
    IF externs = <<>> THEN h
    ELSE LinkToFlat([h EXCEPT ![Head(externs)].Root = root], Tail(externs),
                    root)

RECURSIVE LinkTo(_, _, _)
\* LinkTo: Root of every object under externs becomes root.
LinkTo(h, externs, root) ==
    IF externs = <<>> THEN h
    ELSE LET e == Head(externs)
             h1 == [h EXCEPT ![e].Root = root]
         IN LinkTo(LinkTo(h1, h1[e].Externals, root), Tail(externs), root)

\* Repo.LinkRoot.
LinkRoot(h, id) == LinkTo([h EXCEPT ![id].Root = id], h[id].Externals, id)

\* A variant of RewritePaths that leaves the externals as they are: C12 is
\* lost.
RewritePathsTop(h, id, from, to) ==
    [h EXCEPT ![id].Path = Replace1(h[id].Path, from, to)]

RECURSIVE RewritePaths(_, _, _, _), RewritePathsOf(_, _, _, _)
\* RewritePaths: the first occurrence of from in every path becomes to.
RewritePaths(h, id, from, to) ==
    RewritePathsOf([h EXCEPT ![id].Path = Replace1(h[id].Path, from, to)],
                   h[id].Externals, from, to)
RewritePathsOf(h, ids, from, to) ==
    IF ids = <<>> THEN h
    ELSE RewritePathsOf(RewritePaths(h, Head(ids), from, to), Tail(ids),
                        from, to)

\* A variant of WriteTarget without the redirection to Root: each object
\* would write its own subtree, and C6 is lost.
WriteTargetSelf(h, id) == id

RECURSIVE WriteTarget(_, _)
\* The object Repo.WriteConfig serializes: it redirects to Root until it is
\* on an object that is its own Root.
WriteTarget(h, id) == IF h[id].Root # id THEN WriteTarget(h, h[id].Root) ELSE id

----------------------------------------------------------------------------
(* The state *)

VARIABLES
    run,       \* the number of this invocation of gish
    args,      \* cmdLineArgs and the flags of the command
    pc,        \* where main is
    heap,      \* the Repo objects of this process
    repo,      \* main's repo: the top object (0 before NewRepo)
    stack,     \* the calls of Clone or Clean in progress, the innermost last
    dirs,      \* the directories that exist
    gitDirs,   \* the directories that hold a .git directory (IsRepo)
    notes,     \* repository path -> the document of its gish note
    conf,      \* repository path -> the document of its .git/info/gish.conf
    exclude,   \* repository path -> the lines of its .git/info/exclude
    cmdLog,    \* the git commands this run has issued, in order
    removed,   \* the paths the last call of Clean removed (RemoveAll gave nil)
    reported,  \* the paths the last call of Clean printed as "Would remove"
    diag,      \* the diagnostics this run has printed
    exitCode,  \* the exit status of the process, -1 while it runs
    load,      \* what LoadConfig returned in this run
    dirs0,     \* the directories that existed when this run started
    settled,   \* the objects Clone has checked out and loaded externals of
    abort,     \* why this run's Clone stopped, "none" otherwise
    failed,    \* whether a command or a write of this run has failed
    prev,      \* the command and the abort of the run before this one
    spared,    \* the entries the last call of Clean skipped as externs
    input,     \* the input of the function under check (CookSpec)
    output     \* its result

vars == <<run, args, pc, heap, repo, stack, dirs, gitDirs, notes, conf,
          exclude, cmdLog, removed, reported, diag, exitCode, load, dirs0,
          settled, abort, failed, prev, spared, input, output>>

\* The variables of the file system.

fsVars == <<dirs, gitDirs, notes, conf, exclude>>

\* The variables of the checks of single functions.
pureVars == <<input, output>>

\* The command lines of the model.
ArgSet ==
    {[cmd |-> "clone", n |-> FALSE, f |-> FALSE],
     [cmd |-> "status", n |-> FALSE, f |-> FALSE]}
    \cup {[cmd |-> "clean", n |-> n, f |-> f] : n \in BOOLEAN, f \in BOOLEAN}

FsRoot == <<SL>>

\* p is q or lies under q.
Under(p, q) == p = q \/ HasPrefix(p, IF q = FsRoot THEN q ELSE q \o <<SL>>)

\* The directories os.MkdirAll(path) makes sure exist.
MkdirAll(path) ==
    {SubSeq(path, 1, k) : k \in {j \in 1..Len(path) :
                                    j = Len(path) \/ path[j + 1] = SL}}

\* A variant of IsDir that finds no directory: Clone would check out over a
\* stray directory, and C7 is lost.
IsDirNever(path) == FALSE

IsRepo(repoPath) == repoPath \in gitDirs
IsDir(path) == path \in dirs

\* A variant of FindRootRepoPath that takes the last of the prefixes of pwd
\* that is a repository, the innermost one: C26 is lost.
FindRootRepoPathInner(pwd) ==
    LET parts == SplitAfter(pwd, SL)
        test(k) == PathJoin(SubSeq(parts, 1, k))
        hits == {k \in 1..Len(parts) : IsRepo(test(k))}
    IN IF hits = {} THEN Err(pwd)
       ELSE Ok(test(CHOOSE k \in hits : \A j \in hits : k >= j))

\* FindRootRepoPath: the first of "/", "/x", "/x/y", ... (the prefixes of
\* pwd) that is a repository; an error, with pwd, when none is.
FindRootRepoPath(pwd) ==
    LET parts == SplitAfter(pwd, SL)
        test(k) == PathJoin(SubSeq(parts, 1, k))
        hits == {k \in 1..Len(parts) : IsRepo(test(k))}
    IN IF hits = {} THEN Err(pwd)
       ELSE Ok(test(CHOOSE k \in hits : \A j \in hits : k <= j))

\* The document of the tree an older gish left in .git/info/gish.conf.
DocC == [Path |-> PathC, Url |-> UrlC, CheckoutArgs |-> <<>>,
         ExternalsKnown |-> TRUE, Externals |-> <<>>]
DocA == [Path |-> PathA, Url |-> UrlA, CheckoutArgs |-> <<>>,
         ExternalsKnown |-> TRUE, Externals |-> <<DocC>>]
DocB == [Path |-> PathB, Url |-> UrlB, CheckoutArgs |-> <<"-", "s">>,
         ExternalsKnown |-> TRUE, Externals |-> <<>>]
DocT == [Path |-> Dest, Url |-> UrlT, CheckoutArgs |-> <<>>,
         ExternalsKnown |-> TRUE, Externals |-> <<DocA, DocB>>]

\* The file systems gish may be started in the first time: nothing at the
\* destination; a stray directory where an external is to go; a tree that an
\* older gish (persistWithGitNotes false) cloned, with its gish.conf.
InitFs ==
    \/ /\ dirs = {FsRoot}
       /\ gitDirs = {}
       /\ conf = <<>>
    \/ /\ dirs = {FsRoot, Dest, PathA}
       /\ gitDirs = {}
       /\ conf = <<>>
    \/ /\ dirs = {FsRoot, Dest, PathA, PathV, PathB, PathC}
       /\ gitDirs = {Dest, PathA, PathB, PathC}
       /\ conf = (Dest :> DocT)

NoAbort == [kind |-> "none", path |-> <<>>]

Init ==
    /\ run = 1
    /\ args \in ArgSet
    /\ pc = "main"
    /\ heap = <<>>
    /\ repo = 0
    /\ stack = <<>>
    /\ InitFs
    /\ notes = <<>>
    /\ exclude = <<>>
    /\ cmdLog = <<>>
    /\ removed = {}
    /\ spared = {}
    /\ reported = {}
    /\ diag = {}
    /\ exitCode = -1
    /\ load = [state |-> "none", path |-> <<>>]
    /\ dirs0 = dirs
    /\ settled = {}
    /\ abort = NoAbort
    /\ failed = FALSE
    /\ prev = [cmd |-> "none", abort |-> "none"]
    /\ input = <<>>
    /\ output = <<>>

\* os.Exit(code), after the diagnostic d.
Exit(code, d) ==
    /\ pc' = "exit"
    /\ exitCode' = code
    /\ diag' = diag \cup {d}
    /\ stack' = <<>>

Logged(path, cmd, ok) == Append(cmdLog, [path |-> path, cmd |-> cmd, ok |-> ok])

----------------------------------------------------------------------------
(* Clone *)

Top == stack[Len(stack)]

\* The stack with its innermost call replaced by frame.
WithTop(frame) == [stack EXCEPT ![Len(stack)] = frame]

\* The notes after Repo.WriteConfig on object id: the document of the object
\* WriteConfig redirects to, as the note of the repository at its path
\* (GitNoteAdd), when the git commands succeed (ok) in a repository.
WriteOk(h, id, ok) == ok /\ IsRepo(h[WriteTarget(h, id)].Path)

WriteConfig(h, id, ok) ==
    LET t == WriteTarget(h, id)
    IN IF WriteOk(h, id, ok) THEN (h[t].Path :> Marshal(h, t)) @@ notes
       ELSE notes

\* NewRepoClone and NewRepo for "gish clone <svnUrl> <destDir>": a Repo with
\* the absolute destination and the url, its own Root.
MainNewRepoClone ==
    /\ pc = "main"
    /\ args.cmd = "clone"
    /\ heap' = <<NewNode(Dest, UrlT, 1)>>
    /\ repo' = 1
    /\ pc' = "clone"
    /\ stack' = <<[node |-> 1, step |-> "enter", i |-> 1]>>
    /\ UNCHANGED <<run, args, fsVars, cmdLog, removed, reported, diag,
                   exitCode, load, dirs0, settled, abort, failed, prev>>
    /\ UNCHANGED <<spared, pureVars>>

\* Clone, to the end of the checkout or update of the node: "git svn rebase"
\* in a repository; exit(1) on a directory that is no repository; else
\* MkdirAll and "git svn clone", which may leave a .git behind when it fails.
CloneCheckout ==
    /\ pc = "clone"
    /\ Top.step = "enter"
    /\ LET p == heap[Top.node].Path
       IN IF IsRepo(p)
            THEN \E ok \in BOOLEAN :
                   /\ cmdLog' = Logged(p, "rebase", ok)
                   /\ IF ok
                        THEN /\ stack' = WithTop([Top EXCEPT !.step = "externals"])
                             /\ UNCHANGED <<pc, exitCode, diag, abort, failed>>
                      ELSE /\ Exit(1, "fatal")
                           /\ abort' = [kind |-> "update", path |-> p]
                           /\ failed' = TRUE
                   /\ UNCHANGED <<dirs, gitDirs>>
          ELSE IF IsDir(p)
            THEN /\ Exit(1, "conflict")
                 /\ abort' = [kind |-> "conflict", path |-> p]
                 /\ UNCHANGED <<cmdLog, dirs, gitDirs, failed>>
          ELSE \E mk \in BOOLEAN :
                 IF ~mk
                   THEN /\ Exit(1, "fatal")
                        /\ abort' = [kind |-> "mkdir", path |-> p]
                        /\ failed' = TRUE
                        /\ UNCHANGED <<cmdLog, dirs, gitDirs>>
                 ELSE \E ok \in BOOLEAN, leftGit \in BOOLEAN :
                        /\ dirs' = dirs \cup MkdirAll(p)
                        /\ cmdLog' = Logged(p, "clone", ok)
                        /\ gitDirs' = IF ok \/ leftGit THEN gitDirs \cup {p}
                                      ELSE gitDirs
                        /\ IF ok
                             THEN /\ stack' = WithTop([Top EXCEPT
                                                         !.step = "externals"])
                                  /\ UNCHANGED <<pc, exitCode, diag, abort,
                                                 failed>>
                           ELSE /\ Exit(1, "fatal")
                                /\ abort' = [kind |-> "checkout", path |-> p]
                                /\ failed' = TRUE
    /\ UNCHANGED <<run, args, heap, repo, notes, conf, exclude, removed,
                   reported, load, dirs0, settled, prev>>
    /\ UNCHANGED <<spared, pureVars>>

RECURSIVE RelSegs(_, _)
\* The elements of filepath.Rel: past the common start, ".." for each element
\* left of the base, then the elements left of the target.
RelSegs(b, t) ==
    IF b # <<>> /\ t # <<>> /\ Head(b) = Head(t) THEN RelSegs(Tail(b), Tail(t))
    ELSE [k \in 1..Len(b) |-> <<".", ".">>] \o t

\* filepath.Rel(basepath, targpath) of two absolute paths.
Rel(basepath, targpath) ==
    LET segs(p) == SelectSeq(Split(PathClean(p), SL), LAMBDA e : e # <<>>)
        r == RelSegs(segs(basepath), segs(targpath))
    IN IF r = <<>> THEN <<".">> ELSE JoinWith(r, <<SL>>)

\* The text of an exclude file is held as the bag of its lines, each with its
\* "\n": the order of the lines is not kept (ignoreExternalsSubtractMethod
\* writes its keys in the order of a range over a map).

\* ignoreExternalsSubtractMethod, the paths it appends to the exclude file:
\* the relative path of each external, less those equal to a line that
\* bufio's ReadString('\n') returned (a line with its "\n").
IgnoreToAdd(h, id, lines) ==
    LET externsToAdd == {Rel(h[id].Path, h[e].Path) : e \in Range(h[id].Externals)}
    IN externsToAdd \ BagToSet(lines)

\* Repo.IgnoreExternals: the exclude files after it, each path to add
\* written as a line (Fprintln). Nothing is done without externals, or when
\* the file cannot be opened (no .git/info directory).
IgnoreExternals(h, id) ==
    LET p == h[id].Path
        lines == IF p \in DOMAIN exclude THEN exclude[p] ELSE EmptyBag
    IN IF h[id].Externals = <<>> \/ ~IsRepo(p) THEN exclude
       ELSE (p :> (lines (+) SetToBag({k \o <<NL>> : k \in IgnoreToAdd(h, id, lines)})))
            @@ exclude

RECURSIVE LogInfos(_, _, _, _)
\* The log after n calls of GitSvnInfo in path, the last failing when bad.
LogInfos(log, path, n, bad) ==
    IF n = 0 THEN log
    ELSE LogInfos(Append(log, [path |-> path, cmd |-> "svn-info",
                               ok |-> ~(bad /\ n = 1)]), path, n - 1, bad)

\* The heap with the externals exts appended to object id, each a new object
\* with the Root of id.
AppendExternals(h, id, exts) ==
    LET new == [k \in 1..Len(exts) |->
                   NewNode(exts[k].Path, exts[k].Url, h[id].Root)]
        ids == [k \in 1..Len(exts) |-> Len(h) + k]
    IN [(h \o new) EXCEPT ![id].Externals = h[id].Externals \o ids]

\* A variant of NeedsLoadExternals that asks for the listing whatever the
\* object knows: C21 is lost.
NeedsLoadExternalsAlways(h, n) == TRUE

\* Clone, "if !repo.ExternalsKnown": whether the externals are to be listed.
NeedsLoadExternals(h, n) == ~h[n].ExternalsKnown

\* Clone, "if !repo.ExternalsKnown": LoadExternals ("git svn show-externals",
\* then CookExternals) and IgnoreExternals; an error ends Clone.
CloneLoadExternals ==
    /\ pc = "clone"
    /\ Top.step = "externals"
    /\ LET n == Top.node
           p == heap[n].Path
           raw == ShowExternals(heap[n].Url)
       IN IF ~NeedsLoadExternals(heap, n)
            THEN /\ stack' = WithTop([Top EXCEPT !.step = "write"])
                 /\ settled' = settled \cup {n}
                 /\ UNCHANGED <<heap, exclude, cmdLog, pc, exitCode, diag,
                                abort, failed>>
          ELSE \E ok \in BOOLEAN, infoOk \in 0..Len(SplitAfter(raw, NL)) :
                 LET r == CookExternals(p, raw, infoOk)
                     h1 == AppendExternals(heap, n, r.exts)
                     h2 == [h1 EXCEPT ![n].ExternalsKnown = TRUE]
                 IN IF ~ok
                      THEN /\ cmdLog' = Logged(p, "show-externals", FALSE)
                           /\ Exit(1, "fatal")
                           /\ abort' = [kind |-> "externals", path |-> p]
                           /\ failed' = TRUE
                           /\ UNCHANGED <<heap, exclude, settled>>
                    ELSE IF r.err
                      THEN /\ cmdLog' = LogInfos(Logged(p, "show-externals", TRUE),
                                                 p, r.infos, infoOk < r.infos)
                           /\ heap' = h1
                           /\ Exit(1, "fatal")
                           /\ abort' = [kind |-> "externals", path |-> p]
                           /\ failed' = TRUE
                           /\ UNCHANGED <<exclude, settled>>
                    ELSE   /\ cmdLog' = LogInfos(Logged(p, "show-externals", TRUE),
                                                 p, r.infos, FALSE)
                           /\ heap' = h2
                           /\ exclude' = IgnoreExternals(h2, n)
                           /\ stack' = WithTop([Top EXCEPT !.step = "write"])
                           /\ settled' = settled \cup {n}
                           /\ UNCHANGED <<pc, exitCode, diag, abort, failed>>
    /\ UNCHANGED <<run, args, repo, dirs, gitDirs, notes, conf, removed,
                   reported, load, dirs0, prev>>
    /\ UNCHANGED <<spared, pureVars>>

\* Clone, "repo.WriteConfig()": the error it returns is dropped.
CloneWriteConfig ==
    /\ pc = "clone"
    /\ Top.step = "write"
    /\ \E ok \in BOOLEAN :
         /\ notes' = WriteConfig(heap, Top.node, ok)
         /\ cmdLog' = Logged(heap[WriteTarget(heap, Top.node)].Path,
                             "notes-add", WriteOk(heap, Top.node, ok))
         /\ failed' = (failed \/ ~WriteOk(heap, Top.node, ok))
    /\ stack' = WithTop([Top EXCEPT !.step = "children"])
    /\ UNCHANGED <<run, args, pc, heap, repo, dirs, gitDirs, conf, exclude,
                   removed, reported, diag, exitCode, load, dirs0, settled,
                   abort, prev>>
    /\ UNCHANGED <<spared, pureVars>>

\* A variant of ChildAt that stays on the first external: the later ones
\* are never gone to, and C23 is lost.
ChildAtFirst(ext, i) == ext[1]

\* A variant of ChildAt that takes the externals from the last to the first:
\* the order C5 states is lost.
ChildAtRev(ext, i) == ext[Len(ext) + 1 - i]

\* repo.Externals[i], the external the loops of Clone and Clean go to.
ChildAt(ext, i) == ext[i]

\* Clone, the loop over repo.Externals: Clone of the next external, or the
\* return of nil; main goes on to its WriteConfig when the first call returns.
CloneChildren ==
    /\ pc = "clone"
    /\ Top.step = "children"
    /\ LET ext == heap[Top.node].Externals
       IN IF Top.i <= Len(ext)
            THEN /\ stack' = Append(WithTop([Top EXCEPT !.i = Top.i + 1]),
                                    [node |-> ChildAt(ext, Top.i), step |-> "enter",
                                     i |-> 1])
                 /\ pc' = pc
          ELSE /\ stack' = SubSeq(stack, 1, Len(stack) - 1)
               /\ pc' = IF Len(stack) = 1 THEN "write" ELSE pc
    /\ UNCHANGED <<run, args, heap, repo, fsVars, cmdLog, removed, reported,
                   diag, exitCode, load, dirs0, settled, abort, failed, prev>>
    /\ UNCHANGED <<spared, pureVars>>

\* main, after the command: WriteConfig, its error printed; then the end.
MainWriteConfig ==
    /\ pc = "write"
    /\ \E ok \in BOOLEAN :
         /\ notes' = WriteConfig(heap, repo, ok)
         /\ cmdLog' = Logged(heap[WriteTarget(heap, repo)].Path, "notes-add",
                             WriteOk(heap, repo, ok))
         /\ failed' = (failed \/ ~WriteOk(heap, repo, ok))
         /\ diag' = IF WriteOk(heap, repo, ok) THEN diag
                    ELSE diag \cup {"write-error"}
    /\ pc' = "exit"
    /\ exitCode' = 0
    /\ UNCHANGED <<run, args, heap, repo, stack, dirs, gitDirs, conf, exclude,
                   removed, reported, load, dirs0, settled, abort, prev>>
    /\ UNCHANGED <<spared, pureVars>>

\* The user runs gish again: a new process on the file system as it is.
Restart ==
    /\ pc = "exit"
    /\ run < MaxRuns
    /\ run' = run + 1
    /\ args' \in ArgSet
    /\ pc' = "main"
    /\ heap' = <<>>
    /\ repo' = 0
    /\ stack' = <<>>
    /\ cmdLog' = <<>>
    /\ removed' = {}
    /\ spared' = {}
    /\ UNCHANGED pureVars
    /\ reported' = {}
    /\ diag' = {}
    /\ exitCode' = -1
    /\ load' = [state |-> "none", path |-> <<>>]
    /\ dirs0' = dirs
    /\ settled' = {}
    /\ abort' = NoAbort
    /\ failed' = FALSE
    /\ prev' = [cmd |-> args.cmd, abort |-> abort.kind]
    /\ UNCHANGED fsVars

----------------------------------------------------------------------------
(* The config store's reads, and NewRepo for the commands other than clone *)

\* The repository git works in when it is run in directory d: the innermost
\* one around d, <<>> when there is none.
RepoAt(d) ==
    LET around == {r \in gitDirs : Under(d, r)}
    IN IF around = {} THEN <<>>
       ELSE CHOOSE r \in around : \A q \in around : Len(q) <= Len(r)

\* execGishNotes(path, args...): "git notes <args>" run with cmd.Dir = path,
\* a path relative to the working directory pwd when it is not absolute.
\* The command fails when it cannot be started in that directory, outside a
\* repository, on a word that is no subcommand of git notes, when there is no
\* note to show, or when the environment fails it (~ok).
ExecGishNotes(pwd, path, gargs, ok) ==
    LET in(d, r) ==
            IF ~ok \/ ~IsDir(d) \/ r = <<>> THEN Err("exec")
            ELSE IF gargs[1] = "list"
              THEN Ok(IF r \in DOMAIN notes
                        THEN <<[note |-> "blob", obj |-> "HEAD"]>> ELSE <<>>)
            ELSE IF gargs[1] = "show"
              THEN IF r \in DOMAIN notes /\ Len(gargs) = 2 /\ gargs[2] = "HEAD"
                     THEN Ok(notes[r]) ELSE Err("no note")
            ELSE Err("unknown subcommand")
        at(d) == in(d, RepoAt(d))
    IN at(IF HasPrefix(path, <<SL>>) THEN path ELSE PathJoin(<<pwd, path>>))

\* GitLookupLatestGishNote: the object named after the space of the first
\* line of "git notes list"; an error when there is no such line.
GitLookupLatestGishNote(pwd, path, ok) ==
    LET first(out) == IF ~out.ok THEN out
                      ELSE IF out.val = <<>> THEN Err("EOF")
                      ELSE Ok(out.val[1].obj)
    IN first(ExecGishNotes(pwd, path, <<"list">>, ok))

\* ReadConfigV3: the note is looked up in path, then shown by
\* execGishNotes("show", notedObj): "show" is taken as the directory and the
\* object as the subcommand.
ReadConfigV3(pwd, path, ok) ==
    LET show(notedObj) ==
            IF ~notedObj.ok THEN notedObj
            ELSE ExecGishNotes(pwd, <<"s", "h", "o", "w">>, <<notedObj.val>>, ok)
    IN show(GitLookupLatestGishNote(pwd, path, ok))

\* ReadConfigV2: the file .git/info/gish.conf of path.
ReadConfigV2(path) ==
    IF path \in DOMAIN conf THEN Ok(conf[path]) ELSE Err("no file")

\* A file that is no JSON document of a Repo, and the test json.Unmarshal
\* makes of the bytes it is given.
Corrupt == [Malformed |-> TRUE]
IsDoc(b) == "Path" \in DOMAIN b

\* LoadConfig: the document of ReadConfigV3, else of ReadConfigV2,
\* unmarshalled into new objects and linked to its top object; the error of
\* json.Unmarshal is returned like the error of the reads (the callers drop
\* the Repo that comes with an error).
LoadConfig(pwd, path, ok) ==
    IF ~IsDir(path) THEN [err |-> TRUE, heap |-> <<>>, id |-> 0]
    ELSE LET linked(u) ==
                 [err |-> FALSE, heap |-> LinkRoot(u.heap, u.id), id |-> u.id]
             loaded(b) ==
                 IF ~b.ok \/ ~IsDoc(b.val)
                   THEN [err |-> TRUE, heap |-> <<>>, id |-> 0]
                 ELSE linked(Unmarshal(b.val, <<>>))
             read(v3) == loaded(IF v3.ok THEN v3 ELSE ReadConfigV2(path))
         IN read(ReadConfigV3(pwd, path, ok))

\* The url "git svn info" gives in the checkout at path.
SvnUrl(path) ==
    IF path = Dest THEN UrlT
    ELSE IF path = PathA THEN UrlA
    ELSE IF path = PathB THEN UrlB
    ELSE UrlC

\* NewRepo, for a command that is not clone, to the return of LoadConfig:
\* FindRootRepoPath from the working directory, whose error ends main. The
\* git commands of LoadConfig work, or all fail (~ok): what LoadConfig
\* returns is the same in both cases, since its "show" fails in both.
MainLoadConfig ==
    /\ pc = "main"
    /\ args.cmd # "clone"
    /\ \E pwd \in dirs, ok \in BOOLEAN :
       \E rootPath \in {FindRootRepoPath(pwd)} :
       \E l \in {LoadConfig(pwd, rootPath.val, ok)} :
            IF ~rootPath.ok
              THEN /\ Exit(1, "fatal")
                   /\ UNCHANGED <<heap, repo, load>>
            ELSE /\ load' = [state |-> IF l.err THEN "err" ELSE "ok",
                             path |-> rootPath.val]
                 /\ heap' = l.heap
                 /\ repo' = l.id
                 /\ pc' = "newrepo"
                 /\ UNCHANGED <<stack, exitCode, diag>>
    /\ UNCHANGED <<run, args, fsVars, cmdLog, removed, reported, dirs0,
                   settled, abort, failed, prev>>
    /\ UNCHANGED <<spared, pureVars>>

\* Where main's switch goes for the command.
Dispatch ==
    IF args.cmd = "clean" THEN "cmdClean"
    ELSE IF args.cmd = "updateignores" THEN "ignore"
    ELSE "fanout"

\* NewRepo, after LoadConfig. With a config: Root and RewritePaths to the
\* root path. Without: the url from "git svn info" and LoadExternals; an
\* error of either ends main.
MainNewRepo ==
    /\ pc = "newrepo"
    /\ IF load.state = "ok"
         THEN /\ heap' = RewritePaths([heap EXCEPT ![repo].Root = repo], repo,
                                      heap[repo].Path, load.path)
              /\ pc' = Dispatch
              /\ stack' = <<[node |-> repo, step |-> "enter", i |-> 1]>>
              /\ UNCHANGED <<repo, cmdLog, exitCode, diag, failed>>
       ELSE \E urlOk \in BOOLEAN, ok \in BOOLEAN,
               infoOk \in 0..Len(SplitAfter(ShowExternals(SvnUrl(load.path)), NL)) :
              LET p == load.path
                  r == CookExternals(p, ShowExternals(SvnUrl(p)), infoOk)
                  h0 == <<NewNode(p, SvnUrl(p), 1)>>
                  h1 == AppendExternals(h0, 1, r.exts)
              IN IF ~urlOk
                   THEN /\ cmdLog' = Logged(p, "svn-info", FALSE)
                        /\ Exit(1, "fatal")
                        /\ failed' = TRUE
                        /\ UNCHANGED <<heap, repo>>
                 ELSE IF ~ok \/ r.err
                   THEN /\ cmdLog' = IF ~ok
                             THEN Logged(p, "svn-info", TRUE)
                                    \o <<[path |-> p, cmd |-> "show-externals",
                                          ok |-> FALSE]>>
                             ELSE LogInfos(Logged(p, "svn-info", TRUE)
                                    \o <<[path |-> p, cmd |-> "show-externals",
                                          ok |-> TRUE]>>, p, r.infos,
                                    infoOk < r.infos)
                        /\ Exit(1, "fatal")
                        /\ failed' = TRUE
                        /\ UNCHANGED <<heap, repo>>
                 ELSE /\ cmdLog' = LogInfos(Logged(p, "svn-info", TRUE)
                                    \o <<[path |-> p, cmd |-> "show-externals",
                                          ok |-> TRUE]>>, p, r.infos, FALSE)
                      /\ heap' = [h1 EXCEPT ![1].ExternalsKnown = TRUE]
                      /\ repo' = 1
                      /\ pc' = Dispatch
                      /\ stack' = <<[node |-> 1, step |-> "enter", i |-> 1]>>
                      /\ UNCHANGED <<exitCode, diag, failed>>
    /\ UNCHANGED <<run, args, fsVars, removed, reported, load, dirs0, settled,
                   abort, prev>>
    /\ UNCHANGED <<spared, pureVars>>

----------------------------------------------------------------------------
(* Clean *)

WouldRemove == <<"W", "o", "u", "l", "d", SP, "r", "e", "m", "o", "v", "e", SP>>

\* The first element of a relative path.
FirstSeg(rel) == Split(rel, SL)[1]

RECURSIVE ChildLines(_, _, _)
\* Lines "git clean -ndx" may print about the externals of a node: the
\* external's directory and, when it lies deeper, the untracked directory
\* of the node that holds it.
ChildLines(h, id, exts) ==
    IF exts = <<>> THEN <<>>
    ELSE LET rel == Rel(h[id].Path, h[Head(exts)].Path)
         IN <<WouldRemove \o rel \o <<SL, NL>>>>
            \o (IF FirstSeg(rel) # rel
                  THEN <<WouldRemove \o FirstSeg(rel) \o <<SL, NL>>>>
                ELSE <<>>)
            \o ChildLines(h, id, Tail(exts))

\* The lines "git clean -ndx" may print in a node: an untracked file "o",
\* and the lines about its externals.
CleanCandidates(h, id) ==
    <<WouldRemove \o <<"o", NL>>>> \o ChildLines(h, id, h[id].Externals)

\* The output made of the lines of cands whose index is in S.
Listing(cands, S) ==
    Concat([k \in DOMAIN cands |-> IF k \in S THEN cands[k] ELSE <<>>])

\* A variant of ExtMap without the trim of the slashes: no entry of a
\* listing is found in it, and C2 is lost.
ExtMapNoTrim(h, id) ==
    {Replace1(h[e].Path, h[id].Path, <<>>) : e \in Range(h[id].Externals)}

\* Clean's map of the externs: the path of each external with the first
\* occurrence of the node's path removed, trimmed of slashes.
ExtMap(h, id) ==
    {Trim(Replace1(h[e].Path, h[id].Path, <<>>), SL) : e \in Range(h[id].Externals)}

\* Clean's loop over the lines of toRmStr: the entries it acts on, in order,
\* each with the path it removes or reports.
ToRm(h, id, toRmStr) ==
    LET toRm == Split(toRmStr, NL)
        r(k) == Trim(Replace1(toRm[k], WouldRemove, <<>>), SL)
        acts == SelectSeq([k \in DOMAIN toRm |-> r(k)],
                          LAMBDA e : e # <<>> /\ e \notin ExtMap(h, id))
    IN [k \in DOMAIN acts |-> PathJoin(<<h[id].Path, acts[k]>>)]

\* The entries of toRmStr Clean skips because they are in its map of the
\* externs, as paths.
Skipped(h, id, toRmStr) ==
    LET toRm == Split(toRmStr, NL)
        r(k) == Trim(Replace1(toRm[k], WouldRemove, <<>>), SL)
    IN {PathJoin(<<h[id].Path, r(k)>>) : k \in {j \in DOMAIN toRm : r(j) \in ExtMap(h, id)}}

\* A variant of DryRun that -f overrides: C4 is lost.
DryRunUnlessForce == args.n /\ ~args.f

\* The flags of cmdClean: dryRun is -n, force is -f.
DryRun == args.n
Force == args.f

\* What is left of a set of paths, or of a function on paths, after
\* os.RemoveAll of the paths in gone.
Keep(S, gone) == {d \in S : \A g \in gone : ~Under(d, g)}
KeepIn(f, gone) == [d \in Keep(DOMAIN f, gone) |-> f[d]]

\* cmdClean: without -n and without -f, the usage and exit(1); otherwise
\* Clean of the tree.
CmdClean ==
    /\ pc = "cmdClean"
    /\ IF ~Force /\ ~DryRun
         THEN Exit(1, "usage")
       ELSE /\ pc' = "clean"
            /\ UNCHANGED <<stack, exitCode, diag>>
    /\ UNCHANGED <<run, args, heap, repo, fsVars, cmdLog, removed, reported,
                   load, dirs0, settled, abort, failed, prev>>
    /\ UNCHANGED <<spared, pureVars>>

\* Clean of one node, to its loop over the externals: "git clean -ndx",
\* whose error Clean returns (cmdClean drops it, main goes on); then every
\* entry that is no external is removed, or printed with -n. An error of
\* os.RemoveAll (here: of the entry numbered bad) is printed.
CleanNode ==
    /\ pc = "clean"
    /\ Top.step = "enter"
    /\ LET n == Top.node
           p == heap[n].Path
           cands == CleanCandidates(heap, n)
       IN \E ok \in BOOLEAN, S \in SUBSET DOMAIN cands :
            IF ~ok \/ ~IsDir(p)
              THEN /\ cmdLog' = Logged(p, "clean-ndx", FALSE)
                   /\ failed' = TRUE
                   /\ pc' = "write"
                   /\ stack' = <<>>
                   /\ removed' = {}
                   /\ reported' = {}
                   /\ spared' = {}
                   /\ UNCHANGED <<fsVars, diag>>
            ELSE LET rm == ToRm(heap, n, Listing(cands, S))
                 IN \E bad \in 0..Len(rm) :
                      LET gone == {rm[k] : k \in DOMAIN rm \ {bad}}
                      IN /\ cmdLog' = Logged(p, "clean-ndx", TRUE)
                         /\ stack' = WithTop([Top EXCEPT !.step = "children"])
                         /\ pc' = pc
                         /\ spared' =
                              {[by |-> n, path |-> e] :
                                 e \in Skipped(heap, n, Listing(cands, S))}
                         /\ IF DryRun
                              THEN /\ reported' =
                                        {[by |-> n, path |-> rm[k]] : k \in DOMAIN rm}
                                   /\ removed' = {}
                                   /\ UNCHANGED <<fsVars, diag, failed>>
                            ELSE /\ removed' =
                                        {[by |-> n, path |-> g] : g \in gone}
                                 /\ dirs' = Keep(dirs, gone)
                                 /\ gitDirs' = Keep(gitDirs, gone)
                                 /\ notes' = KeepIn(notes, gone)
                                 /\ conf' = KeepIn(conf, gone)
                                 /\ exclude' = KeepIn(exclude, gone)
                                 /\ diag' = IF bad = 0 THEN diag
                                            ELSE diag \cup {"remove-error"}
                                 /\ failed' = (failed \/ bad # 0)
                                 /\ reported' = {}
    /\ UNCHANGED <<run, args, heap, repo, exitCode, load, dirs0, settled,
                   abort, prev>>
    /\ UNCHANGED pureVars

\* Clean, the loop over repo.Externals: Clean of the next external, or the
\* return of nil; main goes on when the first call returns.
CleanChildren ==
    /\ pc = "clean"
    /\ Top.step = "children"
    /\ LET ext == heap[Top.node].Externals
       IN IF Top.i <= Len(ext)
            THEN /\ stack' = Append(WithTop([Top EXCEPT !.i = Top.i + 1]),
                                    [node |-> ChildAt(ext, Top.i), step |-> "enter",
                                     i |-> 1])
                 /\ pc' = pc
          ELSE /\ stack' = SubSeq(stack, 1, Len(stack) - 1)
               /\ pc' = IF Len(stack) = 1 THEN "write" ELSE pc
    /\ UNCHANGED <<run, args, heap, repo, fsVars, cmdLog, removed, reported,
                   diag, exitCode, load, dirs0, settled, abort, failed, prev>>
    /\ UNCHANGED <<spared, pureVars>>

----------------------------------------------------------------------------
(* The other commands: git with the arguments, in every path of the tree *)

\* main's default case: the next path of repo.Paths(); the error of git is
\* printed and the loop goes on.
FanOut ==
    /\ pc = "fanout"
    /\ LET paths == Paths(heap, repo)
           k == Top.i
       IN IF k <= Len(paths)
            THEN \E ok \in BOOLEAN :
                   LET res == ok /\ IsDir(paths[k])
                   IN /\ cmdLog' = Logged(paths[k], "git", res)
                      /\ diag' = IF res THEN diag ELSE diag \cup {"git-error"}
                      /\ failed' = (failed \/ ~res)
                      /\ stack' = WithTop([Top EXCEPT !.i = k + 1])
                      /\ pc' = pc
          ELSE /\ pc' = "write"
               /\ stack' = <<>>
               /\ UNCHANGED <<cmdLog, diag, failed>>
    /\ UNCHANGED <<run, args, heap, repo, fsVars, removed, reported, exitCode,
                   load, dirs0, settled, abort, prev>>
    /\ UNCHANGED <<spared, pureVars>>

Next ==
    \/ MainNewRepoClone
    \/ MainLoadConfig
    \/ MainNewRepo
    \/ CmdClean
    \/ CleanNode
    \/ CleanChildren
    \/ FanOut
    \/ CloneCheckout
    \/ CloneLoadExternals
    \/ CloneWriteConfig
    \/ CloneChildren
    \/ MainWriteConfig
    \/ Restart

Spec == Init /\ [][Next]_vars

----------------------------------------------------------------------------
(* CookExternals on listings of its own: the function alone *)

\* The number of lines of a listing.
MaxLines == 4

\* The owner of the listings, and the header and the declarations of the
\* listing the specification gives as its example.
Owner == <<"/", "r", "e", "p", "o">>
Base == <<"t", "r", "u", "n", "k", "/", "v", "e", "n", "d", "o", "r">>
LibA == <<"l", "i", "b", "A">>
LibB == <<"l", "i", "b", "B">>
HostUrlA == <<"s", "v", "n", ":", "/", "/", "h", "o", "s", "t", "/",
              "l", "i", "b", "s", "/", "a">>
HostUrlB == <<"s", "v", "n", ":", "/", "/", "h", "o", "s", "t", "/",
              "l", "i", "b", "s", "/", "b">>

\* The declarations '<suffix><whitespace><url>' of the example.
Decls == {[suffix |-> LibA, url |-> HostUrlA],
          [suffix |-> LibB, url |-> HostUrlB]}

\* The header line "# B" and the line of a declaration.
HeaderLine == <<"#", SP>> \o Base \o <<NL>>
DeclLine(d) == d.suffix \o <<SP>> \o d.url \o <<NL>>

\* A line as git svn show-externals prints it: the header's directory, then
\* the url and the local path of the property's line.
PrefixedLine == Base \o <<"^", "/", "a", SP>> \o LibA \o <<NL>>

\* Such a line with a url that is not relative, and one whose local path
\* climbs out of the directory of the property and of the checkout.
PrefixedLineB == Base \o HostUrlB \o <<SP>> \o LibB \o <<NL>>
Climb == <<".", ".", SL, ".", ".", SL, ".", ".", SL, "x">>
EscapingLine == Base \o <<"^", "/", "a", SP>> \o Climb \o <<NL>>

\* The lines the listings are made of.
ListingLines ==
    {HeaderLine, PrefixedLine, PrefixedLineB, EscapingLine, <<NL>>}
        \cup {DeclLine(d) : d \in Decls}

\* The listings: up to MaxLines lines.
Listings == UNION {[1..n -> ListingLines] : n \in 1..MaxLines}

NoOutput == [done |-> FALSE]

\* Every listing, before CookExternals is applied to it.
InitCook ==
    /\ input \in Listings
    /\ output = NoOutput
    /\ pc = "cook"
    /\ run = 1
    /\ args = [cmd |-> "clone", n |-> FALSE, f |-> FALSE]
    /\ heap = <<>>
    /\ repo = 0
    /\ stack = <<>>
    /\ dirs = {FsRoot}
    /\ gitDirs = {}
    /\ conf = <<>>
    /\ notes = <<>>
    /\ exclude = <<>>
    /\ cmdLog = <<>>
    /\ removed = {}
    /\ spared = {}
    /\ reported = {}
    /\ diag = {}
    /\ exitCode = -1
    /\ load = [state |-> "none", path |-> <<>>]
    /\ dirs0 = dirs
    /\ settled = {}
    /\ abort = NoAbort
    /\ failed = FALSE
    /\ prev = [cmd |-> "none", abort |-> "none"]

\* CookExternals of the listing on a Repo at Owner; every GitSvnInfo works,
\* or the first one fails.
Cook ==
    /\ pc = "cook"
    /\ output = NoOutput
    /\ \E infoOk \in {0, Len(input)} :
         LET r == CookExternals(Owner, Concat(input), infoOk)
         IN output' = [done |-> TRUE, err |-> r.err, exts |-> r.exts]
    /\ UNCHANGED <<run, args, pc, heap, repo, stack, fsVars, cmdLog, removed,
                   reported, diag, exitCode, load, dirs0, settled, abort,
                   failed, prev, spared, input>>

CookNext == Cook

CookSpec == InitCook /\ [][CookNext]_vars

----------------------------------------------------------------------------
(* The properties *)

\* s is the start of t.
IsPrefix(s, t) == Len(s) <= Len(t) /\ s = SubSeq(t, 1, Len(s))

\* The paths of the entries of the log whose command is in cmds, in order.
PathsLogged(cmds) ==
    LET es == SelectSeq(cmdLog, LAMBDA e : e.cmd \in cmds)
    IN [k \in DOMAIN es |-> es[k].path]

\* The paths of the tree in memory, node before externals, the externals in
\* the order of the Externals slice.
TreeOrder ==
    LET ns == Nodes(heap, repo) IN [k \in DOMAIN ns |-> heap[ns[k]].Path]

\* C1: save-then-load round trip. When NewRepo has called LoadConfig on a
\* root path for which WriteConfig has stored a document, LoadConfig returns
\* a tree: one whose nodes have the paths, urls, checkoutArgs, externalsKnown
\* and externals, in order, of the stored tree, each node's Root the top one.
C1_SaveLoadRoundTrip ==
    (pc = "newrepo" /\ load.path \in DOMAIN notes)
        => /\ load.state = "ok"
           /\ Marshal(heap, repo) = notes[load.path]
           /\ \A k \in DOMAIN heap : heap[k].Root = repo

\* C2: Clean never removes, and never reports for removal, a path equal to
\* the path of an external of the node it cleans, whatever "git clean -ndx"
\* listed.
C2_CleanSparesChildPath ==
    \A e \in removed \cup reported :
        \A c \in Range(heap[e.by].Externals) : e.path # heap[c].Path

\* A Clean with -f whose listing held the path of an external of the node,
\* and other entries, which it removed.
C2_Witness ==
    /\ args.f /\ ~args.n
    /\ removed # {}
    /\ \E e \in spared :
         \E c \in Range(heap[e.by].Externals) : e.path = heap[c].Path

\* C3: externals are never deleted by a clean. In a run of clean, every
\* external's directory that existed when the run started still exists.
C3_ExternalsSurviveClean ==
    (args.cmd = "clean" /\ repo # 0)
        => \A k \in DOMAIN heap :
             (k # repo /\ heap[k].Path \in dirs0) => heap[k].Path \in dirs

\* C4: with -n, with or without -f, clean removes nothing in any node; with
\* neither -n nor -f it runs no git clean, removes nothing, lists nothing
\* and ends with the usage error and exit status 1 (unless NewRepo has ended
\* the run before, also with status 1).
C4_DryRunOnlyReports ==
    /\ (args.cmd = "clean" /\ args.n)
         => /\ removed = {}
            /\ dirs = dirs0
    /\ (args.cmd = "clean" /\ ~args.n /\ ~args.f)
         => /\ removed = {} /\ reported = {}
            /\ dirs = dirs0
            /\ PathsLogged({"clean-ndx"}) = <<>>
            /\ pc \notin {"clean", "write"}
            /\ pc = "exit"
                 => /\ exitCode = 1
                    /\ "fatal" \notin diag => "usage" \in diag

\* A clean -n -f that has printed what it would remove.
C4_Witness ==
    /\ args.cmd = "clean" /\ args.n /\ args.f
    /\ reported # {}
    /\ pc = "exit"

\* The commands of Clone whose failure ends it.
CloneCmds == {"rebase", "clone", "show-externals", "svn-info"}

\* C5: Clone is fail-fast in the order of the tree. The nodes that have got
\* an update or a checkout are a start of the tree in depth-first order,
\* node before externals, externals in the order of discovery; a failed
\* update, checkout or externals listing is the last command of the run, and
\* a run Clone has stopped is over, with exit status 1.
C5_CloneFailFast ==
    args.cmd = "clone" =>
        /\ repo # 0 => IsPrefix(PathsLogged({"rebase", "clone"}), TreeOrder)
        /\ \A k \in DOMAIN cmdLog :
             (cmdLog[k].cmd \in CloneCmds /\ ~cmdLog[k].ok)
                 => /\ k = Len(cmdLog)
                    /\ abort.kind \in {"update", "checkout", "externals"}
        /\ abort.kind # "none" => (pc = "exit" /\ exitCode = 1)

\* A Clone that a failure stopped after two nodes or more, with a node of
\* the tree left that got no command.
C5_Witness ==
    /\ args.cmd = "clone"
    /\ abort.kind \in {"update", "checkout", "externals"}
    /\ Len(PathsLogged({"rebase", "clone"})) >= 2
    /\ Len(PathsLogged({"rebase", "clone"})) < Len(TreeOrder)

RECURSIVE DocsAt(_, _)
\* The documents for path in the document doc of a tree.
DocsAt(doc, path) ==
    (IF doc.Path = path THEN {doc} ELSE {})
        \cup UNION {DocsAt(doc.Externals[k], path) : k \in DOMAIN doc.Externals}

\* The document d records object n: its ExternalsKnown, and its externals
\* in order, each with its path and url.
Records(d, n) ==
    /\ d.ExternalsKnown = heap[n].ExternalsKnown
    /\ Len(d.Externals) = Len(heap[n].Externals)
    /\ \A k \in DOMAIN d.Externals :
         /\ d.Externals[k].Path = heap[heap[n].Externals[k]].Path
         /\ d.Externals[k].Url = heap[heap[n].Externals[k]].Url

\* No write of the note has failed in this run.
NotesWritten == \A k \in DOMAIN cmdLog : cmdLog[k].cmd = "notes-add" => cmdLog[k].ok

C7_RepoConflict ==
    /\ abort.kind = "conflict"
         => /\ pc = "exit" /\ exitCode = 1
            /\ "conflict" \in diag
            /\ \A k \in DOMAIN cmdLog : ~Under(cmdLog[k].path, abort.path)
            /\ {d \in dirs : Under(d, abort.path)}
                 = {d \in dirs0 : Under(d, abort.path)}
    /\ \A k \in DOMAIN cmdLog :
         cmdLog[k].cmd = "clone" => cmdLog[k].path \notin dirs0

\* Clone has found a stray directory in the place of the external a, after
\* the update of the root.
C7_Witness ==
    /\ abort.kind = "conflict"
    /\ abort.path = PathA
    /\ PathsLogged({"rebase", "clone"}) = <<Dest>>

\* C8: a re-run recovers. When the run before was a clone that stopped on a
\* failed update, checkout or externals listing, a clone that ends without
\* any failed command ends with exit status 0 and every node of the tree
\* checked out.
C8_RerunRecovers ==
    (/\ args.cmd = "clone"
     /\ prev.cmd = "clone"
     /\ prev.abort \in {"update", "checkout", "externals"}
     /\ pc = "exit"
     /\ ~failed)
        => /\ exitCode = 0
           /\ {Dest, PathA, PathB, PathC} \subseteq gitDirs

\* C9: the fan-out of a git command runs it once in the path of every node,
\* in the order of the tree (node before externals, externals in the order
\* of the slice), whatever the commands return: the paths it has run in are
\* a start of that order at any time, and the whole of it at the end.
C9_FanOutOrder ==
    (args.cmd = "status" /\ repo # 0) =>
        /\ IsPrefix(PathsLogged({"git"}), TreeOrder)
        /\ (pc = "write" \/ (pc = "exit" /\ exitCode = 0))
             => PathsLogged({"git"}) = TreeOrder

\* A fan-out over a tree of three nodes or more that is over, the command
\* having failed in the first node.
C9_Witness ==
    /\ args.cmd = "status"
    /\ pc = "exit" /\ exitCode = 0
    /\ Len(PathsLogged({"git"})) >= 3
    /\ \E k \in DOMAIN cmdLog :
         cmdLog[k].cmd = "git" /\ ~cmdLog[k].ok /\ cmdLog[k].path = Dest

\* The listing is a header "# B" and then one or more declarations
\* '<suffix><whitespace><url>'.
IsDeclListing(ls) ==
    /\ Len(ls) >= 2
    /\ ls[1] = HeaderLine
    /\ \A i \in 2..Len(ls) : ls[i] \in {DeclLine(d) : d \in Decls}

\* The externals C10 states for such a listing.
DeclExternals(ls) ==
    [i \in 1..(Len(ls) - 1) |->
        LET d == CHOOSE x \in Decls : DeclLine(x) = ls[i + 1]
        IN [Path |-> PathJoin(<<Owner, Base, d.suffix>>), Url |-> d.url]]

\* C10: CookExternals of a header "# B" and n >= 1 declarations
\* '<suffix><whitespace><url>' on a Repo at P appends n externals in the
\* order of the lines, the i-th with the path join(P, B, suffix_i) and the
\* url url_i.
C10_DeclarationsParsed ==
    (output.done /\ IsDeclListing(input) /\ ~output.err)
        => output.exts = DeclExternals(input)

----------------------------------------------------------------------------
(* ReplaceRelative on references of its own *)

\* The length of the references made of RefChars.
MaxRef == 3

\* The rest of the process while a single function is applied: nothing of
\* it moves.
Parked(at) ==
    /\ pc = at
    /\ run = 1
    /\ args = [cmd |-> "clone", n |-> FALSE, f |-> FALSE]
    /\ heap = <<>>
    /\ repo = 0
    /\ stack = <<>>
    /\ dirs = {FsRoot}
    /\ gitDirs = {}
    /\ conf = <<>>
    /\ notes = <<>>
    /\ exclude = <<>>
    /\ cmdLog = <<>>
    /\ removed = {}
    /\ spared = {}
    /\ reported = {}
    /\ diag = {}
    /\ exitCode = -1
    /\ load = [state |-> "none", path |-> <<>>]
    /\ dirs0 = dirs
    /\ settled = {}
    /\ abort = NoAbort
    /\ failed = FALSE
    /\ prev = [cmd |-> "none", abort |-> "none"]

\* The repository root and the references of the examples.
HostRoot == <<"s", "v", "n", ":", "/", "/", "h", "o", "s", "t", "/", "r",
              "e", "p", "o">>
RefExamples ==
    {<<"^", "/", "l", "i", "b", "/", "f", "o", "o">>,
     <<".", ".", "/", "l", "i", "b", "/", "f", "o", "o">>,
     <<"/", "l", "i", "b", "/", "f", "o", "o">>,
     <<"/", "/", "h", "o", "s", "t", "/", "l", "i", "b", "/", "f",
       "o", "o">>,
     <<"s", "v", "n", ":", "/", "/", "o", "t", "h", "e", "r", "/",
       "x">>}

\* The characters of the other references, and these references.
RefChars == {"^", "/", ".", "x"}
Refs == RefExamples \cup UNION {[1..n -> RefChars] : n \in 0..MaxRef}

InitRepl ==
    /\ input \in [root : {RepoRootUrl, HostRoot}, ref : Refs]
    /\ output = NoOutput
    /\ Parked("repl")

\* ReplaceRelative(root, ref).
Resolve ==
    /\ pc = "repl"
    /\ output = NoOutput
    /\ LET r == ReplaceRelative(input.root, input.ref)
       IN output' = [done |-> TRUE, ok |-> r.ok, val |-> r.val]
    /\ UNCHANGED <<run, args, pc, heap, repo, stack, fsVars, cmdLog, removed,
                   reported, diag, exitCode, load, dirs0, settled, abort,
                   failed, prev, spared, input>>

ReplNext == Resolve

ReplSpec == InitRepl /\ [][ReplNext]_vars

\* The url the table of the relative references gives: <<url>>, or <<>> for
\* the references it refuses.
RefTable(root, ref) ==
    IF HasPrefix(ref, <<"^", "/">>)
      THEN <<root \o <<"/">> \o SubSeq(ref, 3, Len(ref))>>
    ELSE IF \/ HasPrefix(ref, <<".", ".", "/">>)
            \/ HasPrefix(ref, <<"/", "/">>)
            \/ HasPrefix(ref, <<"/">>)
      THEN <<>>
    ELSE <<ref>>

\* C11: ReplaceRelative agrees with the table, for every root and every
\* reference: "^/rest" gives root, "/" and rest; "../", "//" and "/" give an
\* error and no url; any other reference is returned as it is.
C11_ReplaceRelativeTable ==
    output.done =>
        /\ output.ok = (RefTable(input.root, input.ref) # <<>>)
        /\ output.ok => output.val = RefTable(input.root, input.ref)[1]

\* ReplaceRelative has resolved "^/lib/foo" on the root "svn://host/repo".
C11_Witness ==
    /\ pc = "repl"
    /\ output.done /\ output.ok
    /\ input.root = HostRoot
    /\ input.ref = <<"^", "/", "l", "i", "b", "/", "f", "o", "o">>
    /\ output.val = <<"s", "v", "n", ":", "/", "/", "h", "o", "s", "t", "/", "r",
              "e", "p", "o", "/", "l", "i", "b", "/", "f", "o", "o">>

----------------------------------------------------------------------------
(* RewritePaths on trees of its own *)

\* The number of elements of the paths a tree is moved from and to.
MaxSegs == 2

\* The absolute paths of up to MaxSegs elements, each "d" or "x".
RwPaths ==
    UNION {{Concat([k \in 1..n |-> <<SL, f[k]>>]) : f \in [1..n -> {"d", "x"}]} :
             n \in 1..MaxSegs}

\* The document of a tree at path top: the node alone, or with the externals
\* a (and c under it) and v/b.
DocAt(top, deep) ==
    LET leaf(p, u) == [Path |-> p, Url |-> u, CheckoutArgs |-> <<>>,
                       ExternalsKnown |-> TRUE, Externals |-> <<>>]
        a == [leaf(top \o <<SL, "a">>, UrlA) EXCEPT
                 !.Externals = <<leaf(top \o <<SL, "a", SL, "c">>, UrlC)>>]
        b == leaf(top \o <<SL, "v", SL, "b">>, UrlB)
    IN [leaf(top, UrlT) EXCEPT !.Externals = IF deep THEN <<a, b>> ELSE <<>>]

\* The paths of every object of a heap, by object.
AllPaths(h) == [k \in DOMAIN h |-> h[k].Path]

InitRewrite ==
    /\ input \in [from : RwPaths, to : RwPaths, deep : BOOLEAN]
    /\ output = NoOutput
    /\ Parked("rewrite")

\* RewritePaths(repo, from, to) on the tree LoadConfig makes of the document
\* at from, and RewritePaths(repo, from, to) once more on the result.
Rewrite ==
    /\ pc = "rewrite"
    /\ output = NoOutput
    /\ \E u \in {Unmarshal(DocAt(input.from, input.deep), <<>>)} :
       \E once \in {RewritePaths(LinkRoot(u.heap, u.id), u.id,
                                 input.from, input.to)} :
         output' = [done |-> TRUE,
                    before |-> AllPaths(u.heap),
                    once |-> AllPaths(once),
                    twice |-> AllPaths(RewritePaths(once, u.id, input.from,
                                                    input.to))]
    /\ UNCHANGED <<run, args, pc, heap, repo, stack, fsVars, cmdLog, removed,
                   reported, diag, exitCode, load, dirs0, settled, abort,
                   failed, prev, spared, input>>

RewriteNext == Rewrite

RewriteSpec == InitRewrite /\ [][RewriteNext]_vars

\* C12: on a tree whose paths all begin with from, RewritePaths(tree, from,
\* to) puts to in the place of that beginning in every path, once; and
\* RewritePaths with the same from and to on the result changes no path.
C12_RewriteIdempotent ==
    output.done =>
        /\ \A k \in DOMAIN output.before :
             /\ HasPrefix(output.before[k], input.from)
             /\ output.once[k] =
                  input.to \o SubSeq(output.before[k], Len(input.from) + 1,
                                     Len(output.before[k]))
        /\ output.twice = output.once

\* C12, amended: on a tree whose paths all begin with from, RewritePaths puts
\* to in the place of that beginning in every path, once. RewritePaths with
\* the same from and to on the result replaces the first occurrence of from
\* wherever it is in a path: it changes no path exactly when from is to or
\* no rewritten path holds from any more.
C12_RewriteOnceThenStale ==
    output.done =>
        /\ \A k \in DOMAIN output.before :
             /\ HasPrefix(output.before[k], input.from)
             /\ output.once[k] =
                  input.to \o SubSeq(output.before[k], Len(input.from) + 1,
                                     Len(output.before[k]))
        /\ (output.twice = output.once)
             <=> \/ input.from = input.to
                 \/ \A k \in DOMAIN output.once :
                      \A i \in 1..Len(output.once[k]) :
                        ~HasPrefixAt(output.once[k], input.from, i)

\* A tree of four nodes moved from /d to /x, which the second RewritePaths
\* has left as it was.
C12_Witness ==
    /\ pc = "rewrite"
    /\ output.done
    /\ input.deep
    /\ input.from = <<SL, "d">> /\ input.to = <<SL, "x">>
    /\ output.twice = output.once
    /\ output.once # output.before

\* C13: single root. Once a run has its tree (LinkRoot in LoadConfig, the
\* Repo literals of NewRepo, the externals CookExternals appends in NewRepo
\* and in Clone), the Root of every node is the top node, one node only is
\* its own Root, and LinkRoot on the tree changes nothing.
C13_SingleRoot ==
    repo # 0 =>
        /\ \A k \in DOMAIN heap : heap[k].Root = repo
        /\ Cardinality({k \in DOMAIN heap : heap[k].Root = k}) = 1
        /\ Range(Nodes(heap, repo)) = DOMAIN heap
        /\ LinkRoot(heap, repo) = heap

\* LoadConfig has returned a tree three levels deep.
C13_Witness ==
    /\ pc = "newrepo"
    /\ load.state = "ok"
    /\ \E k \in DOMAIN heap :
         /\ heap[k].Path = PathC
         /\ k \notin Range(heap[repo].Externals)
         /\ k # repo

----------------------------------------------------------------------------
(* LoadConfig on a directory that holds a cache of an older format *)

\* The sets of directories that hold a file git_svn_externals
\* (gishCachePathV1), the raw text of "git svn show-externals".
LegacyDirs == SUBSET {Dest, PathA}

\* LoadConfig is about to be called with input.path, from the working
\* directory input.pwd; input.legacy are the directories with a legacy file.
\* gish.conf and the notes are kept in the .git of a repository.
InitLegacy ==
    /\ pc = "load"
    /\ run = 1
    /\ args = [cmd |-> "status", n |-> FALSE, f |-> FALSE]
    /\ heap = <<>>
    /\ repo = 0
    /\ stack = <<>>
    /\ dirs = {FsRoot, Dest, PathA}
    /\ gitDirs \in SUBSET {Dest, PathA}
    /\ conf \in {<<>>} \cup {(Dest :> DocT) : d \in gitDirs \cap {Dest}}
    /\ notes \in {<<>>} \cup {(Dest :> DocT) : d \in gitDirs \cap {Dest}}
    /\ exclude = <<>>
    /\ cmdLog = <<>>
    /\ removed = {}
    /\ spared = {}
    /\ reported = {}
    /\ diag = {}
    /\ exitCode = -1
    /\ load = [state |-> "none", path |-> <<>>]
    /\ dirs0 = dirs
    /\ settled = {}
    /\ abort = NoAbort
    /\ failed = FALSE
    /\ prev = [cmd |-> "none", abort |-> "none"]
    /\ input \in [path : {Dest, PathA, PathB}, pwd : {FsRoot, Dest},
                  legacy : LegacyDirs]
    /\ output = NoOutput

\* LoadConfig(input.path): its result, and the directories that hold a
\* legacy file afterwards. LoadConfig reads the note and gish.conf only, and
\* removes nothing.
LoadLegacy ==
    /\ pc = "load"
    /\ \E ok \in BOOLEAN :
         output' = [done |-> TRUE,
                    res |-> LoadConfig(input.pwd, input.path, ok),
                    legacy |-> input.legacy]
    /\ pc' = "loaded"
    /\ UNCHANGED <<run, args, heap, repo, stack, fsVars, cmdLog, removed,
                   reported, diag, exitCode, load, dirs0, settled, abort,
                   failed, prev, spared, input>>

LegacyNext == LoadLegacy

LegacySpec == InitLegacy /\ [][LegacyNext]_vars

\* C14: legacy-cache migration. When LoadConfig is given a directory that
\* holds the legacy file and no cache of the current format (no .git, so no
\* gish.conf and no note), it returns a tree and the legacy file is gone.
C14_LegacyMigrated ==
    (/\ output.done
     /\ input.path \in input.legacy
     /\ input.path \notin gitDirs)
        => /\ ~output.res.err
           /\ input.path \notin output.legacy

----------------------------------------------------------------------------
(* gish clone -c=<cfgpath> <destDir> *)

\* A donor repository, with the gish.conf of a tree that knows one external
\* only and has not listed the externals of that one.
PathE == <<SL, "e">>
DocE == [Path |-> PathE, Url |-> UrlT, CheckoutArgs |-> <<>>,
         ExternalsKnown |-> TRUE,
         Externals |-> <<[Path |-> PathE \o <<SL, "a">>, Url |-> UrlA,
                          CheckoutArgs |-> <<>>, ExternalsKnown |-> FALSE,
                          Externals |-> <<>>]>>]

\* The file systems "gish clone -c" is started in: the donor, and at the
\* destination nothing, or a tree with its gish.conf, or that tree with a
\* gish note as well.
InitAltFs ==
    \/ /\ dirs = {FsRoot, PathE}
       /\ gitDirs = {PathE}
       /\ conf = (PathE :> DocE)
       /\ notes = <<>>
    \/ /\ dirs = {FsRoot, PathE, Dest, PathA, PathV, PathB, PathC}
       /\ gitDirs = {PathE, Dest, PathA, PathB, PathC}
       /\ conf = (PathE :> DocE) @@ (Dest :> DocT)
       /\ notes \in {<<>>, (Dest :> DocT)}

\* The value of the flag -c: the donor, the destination itself, or a path
\* that does not exist.
InitAlt ==
    /\ run = 1
    /\ args \in [cmd : {"clone"}, n : {FALSE}, f : {FALSE},
                 c : {PathE, Dest, <<SL, "x">>}]
    /\ pc = "main"
    /\ heap = <<>>
    /\ repo = 0
    /\ stack = <<>>
    /\ InitAltFs
    /\ exclude = <<>>
    /\ cmdLog = <<>>
    /\ removed = {}
    /\ spared = {}
    /\ reported = {}
    /\ diag = {}
    /\ exitCode = -1
    /\ load = [state |-> "none", path |-> <<>>]
    /\ dirs0 = dirs
    /\ settled = {}
    /\ abort = NoAbort
    /\ failed = FALSE
    /\ prev = [cmd |-> "none", abort |-> "none"]
    /\ input = <<>>
    /\ output = <<>>

\* NewRepoClone with -c and a destination, and NewRepo's "repo.Root = repo":
\* LoadConfig(*altConfig), whose error ends the process; else RewritePaths
\* of the tree from its own path to the destination. Nothing of the
\* destination is looked at.
MainNewRepoCloneAlt ==
    /\ pc = "main"
    /\ args.cmd = "clone"
    /\ \E pwd \in dirs, ok \in BOOLEAN :
       \E l \in {LoadConfig(pwd, args.c, ok)} :
            IF l.err
              THEN /\ Exit(1, "fatal")
                   /\ load' = [state |-> "err", path |-> args.c]
                   /\ UNCHANGED <<heap, repo>>
            ELSE /\ load' = [state |-> "ok", path |-> args.c]
                 /\ heap' = RewritePaths([l.heap EXCEPT ![l.id].Root = l.id],
                                         l.id, l.heap[l.id].Path, Dest)
                 /\ repo' = l.id
                 /\ pc' = "clone"
                 /\ stack' = <<[node |-> l.id, step |-> "enter", i |-> 1]>>
                 /\ UNCHANGED <<exitCode, diag>>
    /\ UNCHANGED <<run, args, fsVars, cmdLog, removed, reported, dirs0,
                   settled, abort, failed, prev>>
    /\ UNCHANGED <<spared, pureVars>>

AltNext ==
    \/ MainNewRepoCloneAlt
    \/ CloneCheckout
    \/ CloneLoadExternals
    \/ CloneWriteConfig
    \/ CloneChildren
    \/ MainWriteConfig

AltSpec == InitAlt /\ [][AltNext]_vars

\* The cache of the destination, when there is one: its note, else its
\* gish.conf.
PrimaryCache ==
    IF Dest \in DOMAIN notes THEN {notes[Dest]}
    ELSE IF Dest \in DOMAIN conf THEN {conf[Dest]}
    ELSE {}

\* C15: the alternate config is used only when the destination has no cache.
\* When NewRepo returns for "clone -c" and the destination has a cache, the
\* tree is the one of that cache.
C15_AltOnlyWithoutPrimary ==
    (/\ pc = "clone"
     /\ cmdLog = <<>>
     /\ load.state = "ok"
     /\ PrimaryCache # {})
        => Marshal(heap, repo) \in PrimaryCache

----------------------------------------------------------------------------
(* Errors *)

\* The commands whose failure is fatal: the checkout, the update, the
\* listing of the externals, and the "would remove" listing of clean.
FatalCmds == {"clone", "rebase", "show-externals", "clean-ndx"}

\* C16: fatal errors end the run with a diagnostic and a non-zero exit. A
\* process that has ended after one of the fatal commands failed has printed
\* a diagnostic and has a non-zero exit status.
C16_FatalErrorsExit ==
    (/\ pc = "exit"
     /\ \E k \in DOMAIN cmdLog : cmdLog[k].cmd \in FatalCmds /\ ~cmdLog[k].ok)
        => /\ exitCode # 0
           /\ diag # {}

----------------------------------------------------------------------------
(* The cache as one document *)

RECURSIVE RecordsTree(_, _)
\* The document d is object n with everything under it: the fields of n,
\* and for each external of n, in order, its document in the same way.
RecordsTree(d, n) ==
    /\ d.Path = heap[n].Path
    /\ d.Url = heap[n].Url
    /\ d.CheckoutArgs = heap[n].CheckoutArgs
    /\ d.ExternalsKnown = heap[n].ExternalsKnown
    /\ Len(d.Externals) = Len(heap[n].Externals)
    /\ \A k \in DOMAIN d.Externals :
         RecordsTree(d.Externals[k], heap[n].Externals[k])

\* The last command of this run was a write of the note that worked.
JustWritten ==
    /\ cmdLog # <<>>
    /\ cmdLog[Len(cmdLog)].cmd = "notes-add"
    /\ cmdLog[Len(cmdLog)].ok

\* C17: the cache is one document of the whole tree, at the root. Only the
\* repository of the root ever gets a note, and the note is a document for
\* that path; right after a WriteConfig that worked, from whichever node of
\* the tree it was called, the note of the root's path is the root with the
\* whole tree under it; and from every object one step along Root ends on an
\* object that is its own Root, so that the redirect of WriteConfig ends.
C17_WholeTreeDocument ==
    /\ \A p \in DOMAIN notes : p = Dest /\ notes[p].Path = p
    /\ \A k \in DOMAIN heap :
         /\ heap[k].Root \in DOMAIN heap
         /\ heap[heap[k].Root].Root = heap[k].Root
    /\ JustWritten =>
         /\ cmdLog[Len(cmdLog)].path = heap[repo].Path
         /\ heap[repo].Path \in DOMAIN notes
         /\ RecordsTree(notes[heap[repo].Path], repo)

\* Clone has called WriteConfig on an external that has an external of its
\* own, and the write worked.
C17_Witness ==
    /\ pc = "clone"
    /\ JustWritten
    /\ Len(stack) = 2
    /\ Top.node # repo
    /\ Top.step = "children"
    /\ heap[Top.node].Externals # <<>>

----------------------------------------------------------------------------
(* ExternalsKnown *)

\* C18: an object whose ExternalsKnown is false has no externals; a
\* CookExternals that fails leaves the externals of its object as they were.
C18_UnknownMeansEmpty ==
    \A k \in DOMAIN heap : ~heap[k].ExternalsKnown => heap[k].Externals = <<>>

----------------------------------------------------------------------------
(* The entries of CookExternals *)

\* C19: no child escapes its owner. Every external CookExternals appends has
\* a path at or under the path of the Repo, and a line whose path leads out
\* of it is an error.
C19_NoChildEscapes ==
    output.done => \A k \in DOMAIN output.exts : Under(output.exts[k].Path, Owner)

\* The lines of the listings that match "<base><token><whitespace><rest>"
\* for the base of HeaderLine, with their token, the url the token resolves
\* to against RepoRootUrl, and their rest.
EntryParts ==
    {[line |-> PrefixedLine, token |-> <<"^", "/", "a">>,
      url |-> RepoRootUrl \o <<"/", "a">>, rest |-> LibA],
     [line |-> PrefixedLineB, token |-> HostUrlB, url |-> HostUrlB,
      rest |-> LibB],
     [line |-> EscapingLine, token |-> <<"^", "/", "a">>,
      url |-> RepoRootUrl \o <<"/", "a">>, rest |-> Climb]}

RECURSIVE HeaderAt(_, _)
\* Line i of the listing ls is read as a header: it is a header line, and
\* the line before it was not read as one (the line after a header is read
\* as an entry, whatever it is).
HeaderAt(ls, i) ==
    /\ i >= 1
    /\ ls[i] = HeaderLine
    /\ ~HeaderAt(ls, i - 1)

\* The numbers of the lines of ls that are read as entries and match.
EntriesAt(ls) ==
    {i \in 2..Len(ls) : HeaderAt(ls, i - 1) /\ \E e \in EntryParts : e.line = ls[i]}

RECURSIVE InOrder(_)
\* The elements of a finite set of numbers, from the least up.
InOrder(S) ==
    IF S = {} THEN <<>>
    ELSE LET m == CHOOSE x \in S : \A y \in S : x <= y
         IN <<m>> \o InOrder(S \ {m})

----------------------------------------------------------------------------
(* The listing of the externals during Clone *)

RECURSIVE KnownIn(_)
\* The nodes of a document whose ExternalsKnown is true, each with its path
\* and the number of its externals.
KnownIn(doc) ==
    (IF doc.ExternalsKnown
       THEN {[path |-> doc.Path, n |-> Len(doc.Externals)]} ELSE {})
        \cup UNION {KnownIn(doc.Externals[k]) : k \in DOMAIN doc.Externals}

\* The nodes "gish clone -c" got with their externals known, at the paths
\* they have in the clone: those of the gish.conf at the path of -c.
KnownAtLoad ==
    IF load.state = "ok"
      THEN {[path |-> Replace1(e.path, conf[args.c].Path, Dest), n |-> e.n] :
              e \in KnownIn(conf[args.c])}
    ELSE {}

\* C21: the externals of a node are listed exactly when its checkout or
\* update worked and its ExternalsKnown was false, and once at most in a
\* run. A listing comes right after a checkout or update of its path that
\* worked; no path is listed twice; the command after such a checkout or
\* update is the listing of that path exactly when the node was not loaded
\* with its externals known; and a node loaded with its externals known
\* keeps the number of externals it was loaded with.
C21_ListOnlyUnknown ==
    /\ \A k \in DOMAIN cmdLog :
         cmdLog[k].cmd = "show-externals"
            => /\ k > 1
               /\ cmdLog[k - 1].cmd \in {"clone", "rebase"}
               /\ cmdLog[k - 1].ok
               /\ cmdLog[k - 1].path = cmdLog[k].path
               /\ \A j \in DOMAIN cmdLog :
                    (cmdLog[j].cmd = "show-externals"
                       /\ cmdLog[j].path = cmdLog[k].path) => j = k
    /\ \A k \in DOMAIN cmdLog :
         (cmdLog[k].cmd \in {"clone", "rebase"} /\ cmdLog[k].ok /\ k < Len(cmdLog))
            => ((cmdLog[k + 1].cmd = "show-externals"
                   /\ cmdLog[k + 1].path = cmdLog[k].path)
                  <=> ~\E e \in KnownAtLoad : e.path = cmdLog[k].path)
    /\ \A n \in DOMAIN heap : \A e \in KnownAtLoad :
         e.path = heap[n].Path => Len(heap[n].Externals) = e.n

\* A clone from the donor's config has ended well: the root, loaded with
\* its externals known, was not listed; its external, loaded without, was.
C21_Witness ==
    /\ args.c = PathE
    /\ pc = "exit"
    /\ exitCode = 0
    /\ \E k \in DOMAIN cmdLog :
         /\ cmdLog[k].cmd = "show-externals"
         /\ cmdLog[k].path = PathA
         /\ cmdLog[k].ok
    /\ \A k \in DOMAIN cmdLog :
         cmdLog[k].cmd = "show-externals" => cmdLog[k].path # Dest
    /\ Len(heap) = 3

----------------------------------------------------------------------------
(* A gish.conf that is no document *)

\* A gish checkout whose gish.conf is malformed, sound, or not there, and a
\* command that is not clone.
InitCorrupt ==
    /\ run = 1
    /\ args \in {a \in ArgSet : a.cmd # "clone"}
    /\ pc = "main"
    /\ heap = <<>>
    /\ repo = 0
    /\ stack = <<>>
    /\ dirs = {FsRoot, Dest, PathA, PathV, PathB, PathC}
    /\ gitDirs = {Dest, PathA, PathB, PathC}
    /\ conf \in {<<>>, (Dest :> DocT), (Dest :> Corrupt)}
    /\ notes = <<>>
    /\ exclude = <<>>
    /\ cmdLog = <<>>
    /\ removed = {}
    /\ spared = {}
    /\ reported = {}
    /\ diag = {}
    /\ exitCode = -1
    /\ load = [state |-> "none", path |-> <<>>]
    /\ dirs0 = dirs
    /\ settled = {}
    /\ abort = NoAbort
    /\ failed = FALSE
    /\ prev = [cmd |-> "none", abort |-> "none"]
    /\ input = <<>>
    /\ output = <<>>

CorruptNext ==
    \/ MainLoadConfig
    \/ MainNewRepo
    \/ CmdClean
    \/ CleanNode
    \/ CleanChildren
    \/ FanOut
    \/ MainWriteConfig

CorruptSpec == InitCorrupt /\ [][CorruptNext]_vars

\* C22: a corrupt cache is a hard error. Once LoadConfig has been given a
\* root whose gish.conf is there and malformed, the process has no tree, and
\* when it has ended its exit status is not zero.
C22_CorruptIsHard ==
    (/\ load.state # "none"
     /\ load.path \in DOMAIN conf
     /\ ~IsDoc(conf[load.path]))
        => /\ load.state = "err"
           /\ repo = 0
           /\ pc = "exit" => exitCode # 0

----------------------------------------------------------------------------
(* Clean over the tree *)

\* The "git clean -ndx" this run has issued, in order.
CleanListings == SelectSeq(cmdLog, LAMBDA e : e.cmd = "clean-ndx")

\* The original reading of C23: neither an error of a removal nor a failed
\* listing in a node keeps Clean from the rest of the tree. When clean is
\* over, every node of the tree has had its listing.
C23_CleanFailuresIsolated ==
    (/\ args.cmd = "clean"
     /\ repo # 0
     /\ CleanListings # <<>>
     /\ pc \in {"write", "exit"})
        => PathsLogged({"clean-ndx"}) = TreeOrder

\* C23, amended: an error of a removal is isolated, a failed listing ends
\* the clean. Clean goes through the nodes in the order of the tree; when it
\* is over and no listing has failed, every node has had its listing,
\* whatever removals failed; a listing that failed is the last one, and
\* clean is over with it.
C23_RemovalErrorsIsolated ==
    (args.cmd = "clean" /\ repo # 0) =>
        /\ IsPrefix(PathsLogged({"clean-ndx"}), TreeOrder)
        /\ \A k \in DOMAIN CleanListings :
             ~CleanListings[k].ok
                => /\ k = Len(CleanListings)
                   /\ pc \in {"write", "exit"}
        /\ (/\ pc \in {"write", "exit"}
            /\ CleanListings # <<>>
            /\ CleanListings[Len(CleanListings)].ok)
             => PathsLogged({"clean-ndx"}) = TreeOrder

\* A removal has failed in a node, and Clean has since cleaned a later node
\* that has no externals, removing the one entry it has.
C23_Witness ==
    /\ args.cmd = "clean"
    /\ "remove-error" \in diag
    /\ Len(CleanListings) >= 2
    /\ \E n \in DOMAIN heap :
         /\ n # repo
         /\ heap[n].Externals = <<>>
         /\ heap[n].Path = CleanListings[Len(CleanListings)].path
         /\ removed = {[by |-> n, path |-> heap[n].Path \o <<SL, "o">>]}

----------------------------------------------------------------------------
(* The exclude file *)

\* The lines of the exclude file of the repository at path p.
ExcludeLines(p) == IF p \in DOMAIN exclude THEN BagToSet(exclude[p]) ELSE {}

\* The exclude file of object n has a line for each of its externals: the
\* path of the external relative to the path of n.
Ignored(n) ==
    \A e \in Range(heap[n].Externals) :
        (Rel(heap[n].Path, heap[e].Path) \o <<NL>>) \in ExcludeLines(heap[n].Path)

\* C24: after a clone that worked, the exclude file of every node whose
\* externals are known has the relative path of each of its externals,
\* whether the externals were listed during the clone or came with the
\* config.
C24_CloneIgnoresExternals ==
    (/\ args.cmd = "clone"
     /\ pc = "exit"
     /\ exitCode = 0
     /\ ~failed)
        => \A n \in DOMAIN heap : heap[n].ExternalsKnown => Ignored(n)

----------------------------------------------------------------------------
(* gish updateignores *)

\* The exclude files "gish updateignores" may find in the checkout: none, or
\* the one of the root with the line of its first external.
InitExclude == {<<>>, (Dest :> SetToBag({<<"a", NL>>}))}

\* A gish checkout with its gish.conf, or without, and the command
\* updateignores.
InitIgnore ==
    /\ run = 1
    /\ args = [cmd |-> "updateignores", n |-> FALSE, f |-> FALSE]
    /\ pc = "main"
    /\ heap = <<>>
    /\ repo = 0
    /\ stack = <<>>
    /\ dirs = {FsRoot, Dest, PathA, PathV, PathB, PathC}
    /\ gitDirs = {Dest, PathA, PathB, PathC}
    /\ conf \in {<<>>, (Dest :> DocT)}
    /\ notes = <<>>
    /\ exclude \in InitExclude
    /\ cmdLog = <<>>
    /\ removed = {}
    /\ spared = {}
    /\ reported = {}
    /\ diag = {}
    /\ exitCode = -1
    /\ load = [state |-> "none", path |-> <<>>]
    /\ dirs0 = dirs
    /\ settled = {}
    /\ abort = NoAbort
    /\ failed = FALSE
    /\ prev = [cmd |-> "none", abort |-> "none"]
    /\ input = <<>>
    /\ output = NoOutput

\* IgnoreAllExternals of one node, to its loop over the externals:
\* IgnoreExternals of the node.
IgnoreNode ==
    /\ pc = "ignore"
    /\ Top.step = "enter"
    /\ exclude' = IgnoreExternals(heap, Top.node)
    /\ stack' = WithTop([Top EXCEPT !.step = "children"])
    /\ UNCHANGED <<run, args, pc, heap, repo, dirs, gitDirs, notes, conf,
                   cmdLog, removed, reported, diag, exitCode, load, dirs0,
                   settled, abort, failed, prev, spared, pureVars>>

\* IgnoreAllExternals, the loop over repo.Externals: IgnoreAllExternals of
\* the next external, or the return; main goes on when the first call
\* returns.
IgnoreChildren ==
    /\ pc = "ignore"
    /\ Top.step = "children"
    /\ LET ext == heap[Top.node].Externals
       IN IF Top.i <= Len(ext)
            THEN /\ stack' = Append(WithTop([Top EXCEPT !.i = Top.i + 1]),
                                    [node |-> ChildAt(ext, Top.i), step |-> "enter",
                                     i |-> 1])
                 /\ pc' = pc
          ELSE /\ stack' = SubSeq(stack, 1, Len(stack) - 1)
               /\ pc' = IF Len(stack) = 1 THEN "write" ELSE pc
    /\ UNCHANGED <<run, args, heap, repo, fsVars, cmdLog, removed, reported,
                   diag, exitCode, load, dirs0, settled, abort, failed, prev>>
    /\ UNCHANGED <<spared, pureVars>>

\* The user runs "gish updateignores" once more, on the file system as the
\* run before has left it; output keeps the exclude files of that moment.
IgnoreAgain ==
    /\ pc = "exit"
    /\ run < MaxRuns
    /\ run' = run + 1
    /\ pc' = "main"
    /\ heap' = <<>>
    /\ repo' = 0
    /\ stack' = <<>>
    /\ cmdLog' = <<>>
    /\ diag' = {}
    /\ exitCode' = -1
    /\ load' = [state |-> "none", path |-> <<>>]
    /\ dirs0' = dirs
    /\ failed' = FALSE
    /\ prev' = [cmd |-> args.cmd, abort |-> abort.kind]
    /\ output' = [done |-> TRUE, before |-> exclude, code |-> exitCode]
    /\ UNCHANGED <<args, fsVars, removed, reported, spared, settled, abort,
                   input>>

IgnoreNext ==
    \/ MainLoadConfig
    \/ MainNewRepo
    \/ IgnoreNode
    \/ IgnoreChildren
    \/ MainWriteConfig
    \/ IgnoreAgain

IgnoreSpec == InitIgnore /\ [][IgnoreNext]_vars

\* C25: updateignores is idempotent. When a run of updateignores that
\* followed one that had gone through the tree has itself gone through the
\* tree, the exclude files are as that first run left them.
C25_IgnoreIdempotent ==
    (/\ output.done
     /\ output.code = 0
     /\ pc = "exit"
     /\ exitCode = 0)
        => exclude = output.before

----------------------------------------------------------------------------
(* The root of the tree for the commands other than clone *)

\* Directories /d, /d/a, /d/a/c, /d/v, /d/v/b of which any of /d, /d/a,
\* /d/a/c, /d/v/b may be a repository; the working directory input.pwd; a
\* command that is not clone.
InitRoot ==
    /\ run = 1
    /\ args = [cmd |-> "status", n |-> FALSE, f |-> FALSE]
    /\ pc = "main"
    /\ heap = <<>>
    /\ repo = 0
    /\ stack = <<>>
    /\ dirs = {FsRoot, Dest, PathA, PathV, PathB, PathC}
    /\ gitDirs \in SUBSET {Dest, PathA, PathB, PathC}
    /\ conf = <<>>
    /\ notes = <<>>
    /\ exclude = <<>>
    /\ cmdLog = <<>>
    /\ removed = {}
    /\ spared = {}
    /\ reported = {}
    /\ diag = {}
    /\ exitCode = -1
    /\ load = [state |-> "none", path |-> <<>>]
    /\ dirs0 = dirs
    /\ settled = {}
    /\ abort = NoAbort
    /\ failed = FALSE
    /\ prev = [cmd |-> "none", abort |-> "none"]
    /\ input \in [pwd : dirs]
    /\ output = NoOutput

\* FindRootRepoPath with the working directory input.pwd.
FindRoot ==
    /\ pc = "main"
    /\ output = NoOutput
    /\ output' = [done |-> TRUE, res |-> FindRootRepoPath(input.pwd)]
    /\ UNCHANGED <<run, args, pc, heap, repo, stack, fsVars, cmdLog, removed,
                   reported, diag, exitCode, load, dirs0, settled, abort,
                   failed, prev, spared, input>>

RootNext ==
    \/ FindRoot
    \/ MainLoadConfig

RootSpec == InitRoot /\ [][RootNext]_vars

\* The repositories at or above directory d.
ReposAbove(d) == {q \in gitDirs : Under(d, q)}

\* The original reading of C26: the root path is the nearest repository at
\* or above the working directory, the innermost one.
C26_NearestRepo ==
    (output.done /\ output.res.ok)
        => /\ output.res.val \in ReposAbove(input.pwd)
           /\ \A q \in ReposAbove(input.pwd) : Len(q) <= Len(output.res.val)

\* C26, amended: the root path is the outermost repository at or above the
\* working directory, and there is an error when there is none.
\* FindRootRepoPath returns that repository, or an error when there is
\* none; and NewRepo either goes on to LoadConfig with the outermost
\* repository at or above some directory, or ends the process with status 1
\* when some directory has none above it.
C26_OutermostRepo ==
    /\ output.done =>
         /\ output.res.ok <=> ReposAbove(input.pwd) # {}
         /\ output.res.ok =>
              /\ output.res.val \in ReposAbove(input.pwd)
              /\ \A q \in ReposAbove(input.pwd) : Len(output.res.val) <= Len(q)
    /\ load.state # "none" =>
         \E pwd \in dirs :
            /\ load.path \in ReposAbove(pwd)
            /\ \A q \in ReposAbove(pwd) : Len(load.path) <= Len(q)
    /\ pc = "exit" =>
         /\ exitCode = 1
         /\ load.state = "none"
         /\ \E pwd \in dirs : ReposAbove(pwd) = {}

\* The working directory is the innermost of three nested repositories.
C26_Witness ==
    /\ output.done
    /\ output.res.ok
    /\ input.pwd = PathC
    /\ Cardinality(ReposAbove(input.pwd)) = 3
====
